---- MODULE Spec2Model ----
(***************************************************************************)
(* The WebSocket transport adapter of the sockjs session broker            *)
(* (src/src/transports/websocket.rs) together with the parts of the        *)
(* session registry, the Record and the Frame vocabulary it talks to.      *)
(*                                                                         *)
(* Every adapter is an actor: `act` is the actor's own fields (rec,        *)
(* flags), `ctx` is what the actor did to its WebsocketContext (text       *)
(* written to the wire, close frames, messages sent to the registry,       *)
(* stop requests).  The functions of websocket.rs are operators over       *)
(* (act, ctx); the handlers are the actions.                               *)
(***************************************************************************)
EXTENDS Naturals, Sequences, FiniteSets, TLC

(***************************************************************************)
(* Bounds of the model.                                                    *)
(***************************************************************************)
\* events of the environment in one run: frames produced by Session Handlers,
\* Broadcast operations that reach a session, events of the inbound websocket
\* streams (messages, protocol errors, ends of stream)
MaxEvents == 3
\* the connections (one Websocket actor per connection) and the session ids
AdapterOrder == <<"w1", "w2">>
Adapters == {AdapterOrder[i] : i \in 1..Len(AdapterOrder)}
Sids == {"s1"}

None == [none |-> TRUE]

(***************************************************************************)
(* Frame / CloseCode vocabulary (protocol::Frame, protocol::CloseCode).    *)
(***************************************************************************)
Frame(t, s) == [t |-> t, s |-> s]
Heartbeat == Frame("Heartbeat", "")
Open == Frame("Open", "")
Message(s) == Frame("Message", s)
MessageVec(s) == Frame("MessageVec", s)
MessageBlob == Frame("MessageBlob", "")
Close(code) == Frame("Close", code)

\* channel items (context::ChannelItem)
ItemFrame(f) == [item |-> "Frame", frame |-> f]
ItemReady == [item |-> "Ready", frame |-> Heartbeat]

(***************************************************************************)
(* Record (manager::Record): sid, lifecycle state, FIFO buffer.            *)
(***************************************************************************)
NewRecord(sid) == [sid |-> sid, state |-> "New", buffer |-> <<>>]
RecClose(rec) == [rec EXCEPT !.state = "Closed"]
RecInterrupted(rec) == [rec EXCEPT !.state = "Interrupted"]
RecAdd(rec, msg) == [rec EXCEPT !.buffer = Append(@, msg)]

SessionStates == {"New", "Running", "Interrupted", "Closed"}
Terminal(state) == state \in {"Closed", "Interrupted"}

(***************************************************************************)
(* Messages an adapter sends to the registry.                              *)
(***************************************************************************)
Acquire(sid) == [m |-> "Acquire", sid |-> sid, ses |-> None, msg |-> ""]
Release(rec) == [m |-> "Release", sid |-> rec.sid, ses |-> rec, msg |-> ""]
SessionMessage(sid, msg) == [m |-> "SessionMessage", sid |-> sid, ses |-> None, msg |-> msg]

(***************************************************************************)
(* WebsocketContext: the effects of the actor on its context.              *)
(***************************************************************************)
NewCtx == [wire |-> <<>>, closed |-> <<>>, sent |-> <<>>, stop |-> FALSE,
           stream |-> FALSE, connected |-> TRUE]
CtxText(ctx, txt) == [ctx EXCEPT !.wire = Append(@, txt)]
CtxClose(ctx, code) == [ctx EXCEPT !.closed = Append(@, code)]
CtxDoSend(ctx, m) == [ctx EXCEPT !.sent = Append(@, m)]
CtxStop(ctx) == [ctx EXCEPT !.stop = TRUE]
CtxAddMessageStream(ctx) == [ctx EXCEPT !.stream = TRUE]

\* Websocket::init: rec: None, flags: Flags::empty()
NewActor == [rec |-> None, flags |-> {}]

(***************************************************************************)
(* Websocket::send: encode one frame and write it.                         *)
(***************************************************************************)
\* a variant whose Close arm leaves the Record as it is
Send_NoRecordClose(ctx, msg, record) ==
    CASE msg.t = "Heartbeat" ->
           [ctx |-> CtxText(ctx, <<"h">>), record |-> record, res |-> "Continue"]
      [] msg.t = "Message" ->
           [ctx |-> CtxText(ctx, <<"a[", "\"", msg.s, "\"", "]">>), record |-> record,
            res |-> "Continue"]
      [] msg.t = "MessageVec" ->
           [ctx |-> CtxText(ctx, <<"a", msg.s>>), record |-> record, res |-> "Continue"]
      [] msg.t = "MessageBlob" ->
           [ctx |-> ctx, record |-> record, res |-> "Continue"]
      [] msg.t = "Open" ->
           [ctx |-> CtxText(ctx, <<"o">>), record |-> record, res |-> "Continue"]
      [] msg.t = "Close" ->
           [ctx |-> CtxText(ctx, <<"c[", msg.s, "]", "\n">>), record |-> record,
            res |-> "Continue"]

Send(ctx, msg, record) ==
    CASE msg.t = "Heartbeat" ->
           [ctx |-> CtxText(ctx, <<"h">>), record |-> record, res |-> "Continue"]
      [] msg.t = "Message" ->
           [ctx |-> CtxText(ctx, <<"a[", "\"", msg.s, "\"", "]">>), record |-> record,
            res |-> "Continue"]
      [] msg.t = "MessageVec" ->
           [ctx |-> CtxText(ctx, <<"a", msg.s>>), record |-> record, res |-> "Continue"]
      [] msg.t = "MessageBlob" ->
           [ctx |-> ctx, record |-> record, res |-> "Continue"]
      [] msg.t = "Open" ->
           [ctx |-> CtxText(ctx, <<"o">>), record |-> record, res |-> "Continue"]
      [] msg.t = "Close" ->
           [ctx |-> CtxText(ctx, <<"c[", msg.s, "]", "\n">>), record |-> RecClose(record),
            res |-> "Continue"]

\* Websocket::send_close
SendClose(ctx, code) == CtxText(ctx, <<"c[", code, "]">>)

(***************************************************************************)
(* Websocket::release                                                      *)
(***************************************************************************)
ReleaseFn(act, ctx) ==
    IF act.rec # None
    THEN LET rec == IF ~ctx.connected THEN RecInterrupted(act.rec) ELSE act.rec
         IN [act |-> [act EXCEPT !.rec = None],
             ctx |-> CtxStop(CtxDoSend(ctx, Release(rec)))]
    ELSE [act |-> act, ctx |-> CtxStop(ctx)]

(***************************************************************************)
(* Websocket::send_buffered: pop_front and send until the buffer is empty. *)
(***************************************************************************)
\* a variant that takes the newest frame first (pop_back)
RECURSIVE SendBuffered_PopBack(_, _)
SendBuffered_PopBack(ctx, record) ==
    IF record.buffer = <<>>
    THEN [ctx |-> ctx, record |-> record, res |-> "Continue"]
    ELSE LET n == Len(record.buffer)
             r == Send(ctx, record.buffer[n],
                       [record EXCEPT !.buffer = SubSeq(@, 1, n - 1)])
         IN SendBuffered_PopBack(r.ctx, r.record)

RECURSIVE SendBuffered(_, _)
SendBuffered(ctx, record) ==
    IF record.buffer = <<>>
    THEN [ctx |-> ctx, record |-> record, res |-> "Continue"]
    ELSE LET msg == Head(record.buffer)
             popped == [record EXCEPT !.buffer = Tail(@)]
             r == Send(ctx, msg, popped)
         IN IF r.res = "Stop"
            THEN [ctx |-> r.ctx, record |-> r.record, res |-> "Stop"]
            ELSE SendBuffered(r.ctx, r.record)

(***************************************************************************)
(* Websocket::handle_message                                               *)
(***************************************************************************)
\* a variant whose Ready arm sets READY without flushing the buffer
HandleMessage_NoFlush(act, ctx, msg) ==
    IF msg.item = "Frame"
    THEN IF act.rec # None
         THEN IF "READY" \in act.flags
              THEN LET r == Send(ctx, msg.frame, act.rec)
                   IN [act |-> [act EXCEPT !.rec = r.record], ctx |-> r.ctx]
              ELSE [act |-> [act EXCEPT !.rec = RecAdd(act.rec, msg.frame)], ctx |-> ctx]
         ELSE [act |-> act, ctx |-> ctx]
    ELSE [act |-> [act EXCEPT !.flags = @ \cup {"READY"}], ctx |-> ctx]

\* a variant that writes a channel frame at once, Ready or not
HandleMessage_NoGate(act, ctx, msg) ==
    IF msg.item = "Frame"
    THEN IF act.rec # None
         THEN LET r == Send(ctx, msg.frame, act.rec)
              IN [act |-> [act EXCEPT !.rec = r.record], ctx |-> r.ctx]
         ELSE [act |-> act, ctx |-> ctx]
    ELSE LET s1 == IF act.rec # None
                   THEN LET r == SendBuffered(ctx, act.rec)
                        IN [act |-> [act EXCEPT !.rec = r.record], ctx |-> r.ctx]
                   ELSE [act |-> act, ctx |-> ctx]
         IN [act |-> [s1.act EXCEPT !.flags = @ \cup {"READY"}], ctx |-> s1.ctx]

HandleMessage(act, ctx, msg) ==
    IF msg.item = "Frame"
    THEN IF act.rec # None
         THEN IF "READY" \in act.flags
              THEN LET r == Send(ctx, msg.frame, act.rec)
                   IN IF r.res = "Stop"
                      THEN ReleaseFn([act EXCEPT !.rec = r.record], r.ctx)
                      ELSE [act |-> [act EXCEPT !.rec = r.record], ctx |-> r.ctx]
              ELSE [act |-> [act EXCEPT !.rec = RecAdd(act.rec, msg.frame)], ctx |-> ctx]
         ELSE [act |-> act, ctx |-> ctx]
    ELSE LET s1 == IF act.rec # None
                   THEN LET r == SendBuffered(ctx, act.rec)
                        IN IF r.res = "Stop"
                           THEN ReleaseFn([act EXCEPT !.rec = r.record], r.ctx)
                           ELSE [act |-> [act EXCEPT !.rec = r.record], ctx |-> r.ctx]
                   ELSE [act |-> act, ctx |-> ctx]
         IN IF "RELEASE" \in s1.act.flags
            THEN ReleaseFn(s1.act, s1.ctx)
            ELSE [act |-> [s1.act EXCEPT !.flags = @ \cup {"READY"}], ctx |-> s1.ctx]

(***************************************************************************)
(* Websocket::init_transport: the closures run on the answer to Acquire.   *)
(***************************************************************************)
\* a variant that keeps the Record of a terminal session after releasing it
InitTransportOk_KeepsTerminal(act, ctx, rec) ==
    CASE rec.state = "Running" ->
           LET r == SendBuffered(ctx, rec)
           IN [act |-> [rec |-> r.record, flags |-> act.flags],
               ctx |-> CtxAddMessageStream(r.ctx)]
      [] rec.state = "New" ->
           LET r1 == Send(ctx, Open, [rec EXCEPT !.state = "Running"])
               r2 == SendBuffered(r1.ctx, r1.record)
           IN [act |-> [rec |-> r2.record, flags |-> act.flags],
               ctx |-> CtxAddMessageStream(r2.ctx)]
      [] rec.state = "Interrupted" ->
           LET r == Send(ctx, Close("Interrupted"), rec)
           IN [act |-> [act EXCEPT !.rec = r.record],
               ctx |-> CtxDoSend(r.ctx, Release(r.record))]
      [] rec.state = "Closed" ->
           LET r == Send(ctx, Close("GoAway"), rec)
           IN [act |-> [act EXCEPT !.rec = r.record],
               ctx |-> CtxDoSend(r.ctx, Release(r.record))]

\* a variant whose Running arm announces the session again
InitTransportOk_ReOpens(act, ctx, rec) ==
    CASE rec.state \in {"Running", "New"} ->
           LET r1 == Send(ctx, Open, [rec EXCEPT !.state = "Running"])
               r2 == SendBuffered(r1.ctx, r1.record)
           IN [act |-> [rec |-> r2.record, flags |-> act.flags],
               ctx |-> CtxAddMessageStream(r2.ctx)]
      [] rec.state = "Interrupted" ->
           LET r == Send(ctx, Close("Interrupted"), rec)
           IN [act |-> act, ctx |-> CtxDoSend(r.ctx, Release(r.record))]
      [] rec.state = "Closed" ->
           LET r == Send(ctx, Close("GoAway"), rec)
           IN [act |-> act, ctx |-> CtxDoSend(r.ctx, Release(r.record))]

\* a variant that marks the Record Running before it looks at its state
InitTransportOk_MarksRunning(act, ctx, rec) ==
    LET run == [rec EXCEPT !.state = "Running"]
    IN CASE rec.state \in {"Running", "New"} ->
              LET r1 == IF rec.state = "New" THEN Send(ctx, Open, run)
                        ELSE [ctx |-> ctx, record |-> run, res |-> "Continue"]
                  r2 == SendBuffered(r1.ctx, r1.record)
              IN [act |-> [rec |-> r2.record, flags |-> act.flags],
                  ctx |-> CtxAddMessageStream(r2.ctx)]
         [] rec.state = "Interrupted" ->
              [act |-> act,
               ctx |-> CtxDoSend(CtxText(ctx, <<"c[", "Interrupted", "]", "\n">>),
                                 Release(run))]
         [] rec.state = "Closed" ->
              [act |-> act,
               ctx |-> CtxDoSend(CtxText(ctx, <<"c[", "GoAway", "]", "\n">>),
                                 Release(run))]

\* Ok(rec): match rec.0.state
InitTransportOk(act, ctx, rec) ==
    CASE rec.state = "Running" ->
           LET r == SendBuffered(ctx, rec)
               fl == IF r.res = "Stop" THEN act.flags \cup {"RELEASE"} ELSE act.flags
           IN [act |-> [rec |-> r.record, flags |-> fl],
               ctx |-> CtxAddMessageStream(r.ctx)]
      [] rec.state = "New" ->
           LET r1 == Send(ctx, Open, [rec EXCEPT !.state = "Running"])
               r2 == IF r1.res = "Stop" THEN r1 ELSE SendBuffered(r1.ctx, r1.record)
               fl == IF r2.res = "Stop" THEN act.flags \cup {"RELEASE"} ELSE act.flags
           IN [act |-> [rec |-> r2.record, flags |-> fl],
               ctx |-> CtxAddMessageStream(r2.ctx)]
      [] rec.state = "Interrupted" ->
           LET r == Send(ctx, Close("Interrupted"), rec)
           IN [act |-> act, ctx |-> CtxDoSend(r.ctx, Release(r.record))]
      [] rec.state = "Closed" ->
           LET r == Send(ctx, Close("GoAway"), rec)
           IN [act |-> act, ctx |-> CtxDoSend(r.ctx, Release(r.record))]

\* CloseCode::from(SessionError): the close code of a refused Acquire
ErrInto(err) == IF err = "SessionBusy" THEN "Acquired" ELSE "InternalError"

\* a variant without ctx.stop()
InitTransportErr_NoStop(act, ctx, err) ==
    [act |-> act, ctx |-> SendClose(ctx, ErrInto(err))]

\* Err(err): send_close, ctx.stop()
InitTransportErr(act, ctx, err) ==
    [act |-> act, ctx |-> CtxStop(SendClose(ctx, ErrInto(err)))]

\* map_err: the request future failed
InitTransportMapErr(act, ctx) ==
    [act |-> act, ctx |-> SendClose(ctx, "InternalError")]

(***************************************************************************)
(* Actor::stopping                                                         *)
(***************************************************************************)
StoppingFn(act, ctx) ==
    IF act.rec # None
    THEN [act |-> [act EXCEPT !.rec = None],
          ctx |-> CtxDoSend(ctx, Release(RecClose(act.rec)))]
    ELSE [act |-> act, ctx |-> ctx]

(***************************************************************************)
(* Handler<Broadcast>::handle                                              *)
(***************************************************************************)
HandleBroadcastFn(act, ctx, msg) ==
    IF act.rec # None
    THEN LET r == Send(ctx, msg, act.rec)
         IN [act |-> [act EXCEPT !.rec = r.record], ctx |-> r.ctx]
    ELSE [act |-> act, ctx |-> ctx]

(***************************************************************************)
(* StreamHandler::error                                                    *)
(***************************************************************************)
\* a variant that leaves the Record to the stopping hook
ErrorFn_LeavesToStopping(act, ctx) == [act |-> act, ctx |-> ctx]

ErrorFn(act, ctx) ==
    IF act.rec # None
    THEN [act |-> [act EXCEPT !.rec = None],
          ctx |-> CtxDoSend(ctx, Release(RecInterrupted(act.rec)))]
    ELSE [act |-> act, ctx |-> ctx]

(***************************************************************************)
(* StreamHandler::handle, ws::Message::Text.  A text is a sequence of      *)
(* characters.  A character is written as itself, except: Q the quote,     *)
(* "BS" the backslash, "SP" the space, "NL" "CR" "TAB" "BSP" "FF" the      *)
(* control characters, "EACUTE" a character of two bytes in UTF-8, and     *)
(* "U+hhhh" any other character named by its code point.                   *)
(*                                                                         *)
(* serde_json::from_slice::<String> accepts one JSON string literal with   *)
(* whitespace around it: the escapes are decoded, an unknown escape, a     *)
(* lone surrogate or a raw control character is an error, and so is        *)
(* anything but whitespace after the closing quote.                        *)
(***************************************************************************)
Q == "\""

Whitespace == {"SP", "NL", "TAB", "CR"}
HexLower == <<"0", "1", "2", "3", "4", "5", "6", "7", "8", "9", "a", "b", "c", "d", "e", "f">>
HexUpper == <<"0", "1", "2", "3", "4", "5", "6", "7", "8", "9", "A", "B", "C", "D", "E", "F">>
IsHex(c) == \E k \in 1..16 : HexLower[k] = c \/ HexUpper[k] = c
HexVal(c) == (CHOOSE k \in 1..16 : HexLower[k] = c \/ HexUpper[k] = c) - 1

\* the four hex digits at s[i..i+3] as a number, 65536 when they are not there
Hex4At(s, i) ==
    IF i + 3 <= Len(s) /\ \A k \in i..(i + 3) : IsHex(s[k])
    THEN HexVal(s[i]) * 4096 + HexVal(s[i + 1]) * 256 + HexVal(s[i + 2]) * 16
         + HexVal(s[i + 3])
    ELSE 65536

\* the characters below U+0020
IsControl(c) ==
    \/ c \in {"NL", "TAB", "CR", "BSP", "FF"}
    \/ \E a \in 1..2, b \in 1..16 : c = "U+00" \o HexUpper[a] \o HexUpper[b]

\* the characters U+0020 .. U+007E
Ascii ==
    <<
       "SP", "!", Q, "#", "$", "%", "&", "'", "(", ")", "*", "+",
       ",", "-", ".", "/", "0", "1", "2", "3", "4", "5", "6", "7",
       "8", "9", ":", ";", "<", "=", ">", "?", "@", "A", "B", "C",
       "D", "E", "F", "G", "H", "I", "J", "K", "L", "M", "N", "O",
       "P", "Q", "R", "S", "T", "U", "V", "W", "X", "Y", "Z", "[",
       "BS", "]", "^", "_", "U+0060", "a", "b", "c", "d", "e", "f", "g",
       "h", "i", "j", "k", "l", "m", "n", "o", "p", "q", "r", "s",
       "t", "u", "v", "w", "x", "y", "z", "{", "|", "}", "~"
    >>

\* the length in bytes of a character in UTF-8
Width(c) ==
    CASE c = "EACUTE" -> 2
      [] (\E k \in 1..Len(Ascii) : Ascii[k] = c) \/ IsControl(c) -> 1
      [] \E a \in 1..8, b \in 1..16 : c = "U+00" \o HexUpper[a] \o HexUpper[b] -> 1
      [] \E a \in 1..8, b \in 1..16, d \in 1..16 :
            c = "U+0" \o HexUpper[a] \o HexUpper[b] \o HexUpper[d] -> 2
      [] \E a \in 1..16, b \in 1..16, d \in 1..16, e \in 1..16 :
            c = "U+" \o HexUpper[a] \o HexUpper[b] \o HexUpper[d] \o HexUpper[e] -> 3
      [] OTHER -> 4

\* text.len(): the length of a text in bytes
RECURSIVE ByteLen(_)
ByteLen(text) == IF text = <<>> THEN 0 ELSE Width(Head(text)) + ByteLen(Tail(text))

RECURSIVE HexOf(_, _)
HexOf(n, digits) ==
    IF digits = 0 /\ n = 0 THEN ""
    ELSE HexOf(n \div 16, IF digits = 0 THEN 0 ELSE digits - 1) \o HexUpper[(n % 16) + 1]

\* the character of a code point
CharOf(code) ==
    CASE code \in 32..126 -> Ascii[code - 31]
      [] code = 8 -> "BSP"
      [] code = 9 -> "TAB"
      [] code = 10 -> "NL"
      [] code = 12 -> "FF"
      [] code = 13 -> "CR"
      [] code = 233 -> "EACUTE"
      [] OTHER -> "U+" \o HexOf(code, 4)

ParseFail == [ok |-> FALSE, val |-> <<>>, next |-> 0]

\* the body of a string literal from s[i] up to its closing quote
RECURSIVE ParseStr(_, _, _)
ParseStr(s, i, acc) ==
    IF i > Len(s) THEN ParseFail
    ELSE IF s[i] = Q THEN [ok |-> TRUE, val |-> acc, next |-> i + 1]
    ELSE IF IsControl(s[i]) THEN ParseFail
    ELSE IF s[i] # "BS" THEN ParseStr(s, i + 1, Append(acc, s[i]))
    ELSE IF i + 1 > Len(s) THEN ParseFail
    ELSE LET e == s[i + 1]
         IN CASE e = Q -> ParseStr(s, i + 2, Append(acc, Q))
              [] e = "BS" -> ParseStr(s, i + 2, Append(acc, "BS"))
              [] e = "/" -> ParseStr(s, i + 2, Append(acc, "/"))
              [] e = "b" -> ParseStr(s, i + 2, Append(acc, "BSP"))
              [] e = "f" -> ParseStr(s, i + 2, Append(acc, "FF"))
              [] e = "n" -> ParseStr(s, i + 2, Append(acc, "NL"))
              [] e = "r" -> ParseStr(s, i + 2, Append(acc, "CR"))
              [] e = "t" -> ParseStr(s, i + 2, Append(acc, "TAB"))
              [] e = "u" ->
                   LET hi == Hex4At(s, i + 2)
                       lo == IF i + 7 <= Len(s) /\ s[i + 6] = "BS" /\ s[i + 7] = "u"
                             THEN Hex4At(s, i + 8) ELSE 65536
                   IN IF hi = 65536 THEN ParseFail
                      ELSE IF hi \in 55296..56319
                      THEN IF lo \in 56320..57343
                           THEN ParseStr(s, i + 12,
                                    Append(acc, CharOf(65536 + (hi - 55296) * 1024
                                                       + (lo - 56320))))
                           ELSE ParseFail
                      ELSE IF hi \in 56320..57343 THEN ParseFail
                      ELSE ParseStr(s, i + 6, Append(acc, CharOf(hi)))
              [] OTHER -> ParseFail

FromSliceString(bytes) ==
    LET ws == {k \in 1..Len(bytes) : \A m \in 1..k : bytes[m] \in Whitespace}
        i0 == Cardinality(ws) + 1
    IN IF i0 > Len(bytes) \/ bytes[i0] # Q
       THEN [ok |-> FALSE, val |-> <<>>]
       ELSE LET r == ParseStr(bytes, i0 + 1, <<>>)
            IN IF r.ok /\ \A k \in r.next..Len(bytes) : bytes[k] \in Whitespace
               THEN [ok |-> TRUE, val |-> r.val]
               ELSE [ok |-> FALSE, val |-> <<>>]

\* the Err(_) arms: ctx.close(Invalid), release as interrupted, ctx.stop()
BrokenJson(act, ctx) ==
    LET c1 == CtxClose(ctx, "Invalid")
        c2 == IF act.rec # None
              THEN CtxDoSend(c1, Release(RecInterrupted(act.rec)))
              ELSE c1
    IN [act |-> [act EXCEPT !.rec = None], ctx |-> CtxStop(c2)]

\* text.len() counts bytes, and text[1..text.len() - 1] panics when its end is
\* not a character boundary, that is when the last character is longer than
\* one byte; panic tells that the handler panicked
HandleText(act, ctx, text) ==
    IF text = <<>>
    THEN [act |-> act, ctx |-> ctx, panic |-> FALSE]
    ELSE IF text[1] = "[" /\ ByteLen(text) <= 2
    THEN [act |-> act, ctx |-> ctx, panic |-> FALSE]
    ELSE IF text[1] = "[" /\ Width(text[Len(text)]) > 1
    THEN [act |-> act, ctx |-> ctx, panic |-> TRUE]
    ELSE LET p == IF text[1] = "["
                  THEN FromSliceString(SubSeq(text, 2, Len(text) - 1))
                  ELSE FromSliceString(text)
         IN IF ~p.ok
            THEN LET b == BrokenJson(act, ctx)
                 IN [act |-> b.act, ctx |-> b.ctx, panic |-> FALSE]
            ELSE IF act.rec # None
                 THEN [act |-> act,
                       ctx |-> CtxDoSend(ctx, SessionMessage(act.rec.sid, p.val)),
                       panic |-> FALSE]
                 ELSE [act |-> act, ctx |-> ctx, panic |-> FALSE]

\* a variant that releases the Record without rec.close()
HandleClose_NoMark(act, ctx) ==
    IF act.rec # None
    THEN [act |-> [act EXCEPT !.rec = None],
          ctx |-> CtxStop(CtxDoSend(ctx, Release(act.rec)))]
    ELSE [act |-> act, ctx |-> CtxStop(ctx)]

\* ws::Message::Close
HandleClose(act, ctx) ==
    IF act.rec # None
    THEN [act |-> [act EXCEPT !.rec = None],
          ctx |-> CtxStop(CtxDoSend(ctx, Release(RecClose(act.rec))))]
    ELSE [act |-> act, ctx |-> CtxStop(ctx)]

\* a variant that treats a binary message as an undecodable text
HandleBinary_AsBroken(act, ctx) == BrokenJson(act, ctx)

\* ws::Message::Binary: error!() only
HandleBinary(act, ctx) == [act |-> act, ctx |-> ctx]

(***************************************************************************)
(* Inputs.                                                                 *)
(***************************************************************************)
\* the frames the Session Handler can send as the k-th frame of its session: a
\* message with the payload numbered k (a batch when k is even), or Close
Payload(k) == <<"p", k>>
SessionFrames(k) == {IF k % 2 = 1 THEN Message(Payload(k)) ELSE MessageVec(Payload(k)),
                     Close("GoAway")}
\* frames the registry broadcasts
BroadcastFrames == {Heartbeat, Close("GoAway")}
\* inbound text messages:  (empty)  []  ["x"]  ["x  x  ["x","y"]  ["a\"b"]
\* "\u0041" followed by a space  [e-acute
TextInputs ==
    { <<>>,
      <<"[", "]">>,
      <<"[", Q, "x", Q, "]">>,
      <<"[", Q, "x">>,
      <<"x">>,
      <<"[", Q, "x", Q, ",", Q, "y", Q, "]">>,
      <<"[", Q, "a", "BS", Q, "b", Q, "]">>,
      <<Q, "BS", "u", "0", "0", "4", "1", Q, "SP">>,
      <<"[", "EACUTE">> }

(***************************************************************************)
(* State.                                                                  *)
(***************************************************************************)
VARIABLES
    status,    \* adapter -> "idle" | "wait" (for Acquire) | "running" | "stopped" |
               \* "panicked"
    session,   \* adapter -> the sid of its request ("" before the connection)
    act,       \* adapter -> the actor's fields: rec, flags
    ctx,       \* adapter -> the actor's context
    chan,      \* adapter -> the frame channel handed out by Acquire
    bmail,     \* adapter -> Broadcast messages in the actor's mailbox
    mbox,      \* the registry's mailbox: <<[from, msg]>>
    reg,       \* sid -> [record, sink, ready]: the registry's table
    produced,  \* sid -> frames produced for the session so far
    bcasts,    \* Broadcast operations so far
    inbound,   \* events of the inbound websocket streams so far
    via,       \* adapter -> for every text on the wire, the code path that wrote it
    acq,       \* adapter -> how its Acquire ended, and the Record it was given
    otherOpen, \* sid -> Open frames written by the transports that served it before
    recv,      \* adapter -> the channel items it has handled, in order
    regUp,     \* whether the registry actor is alive in this run
    answer,    \* adapter -> the registry's answer to its Acquire, on its way back
    lastIn     \* the event of the inbound stream handled by the step into this state

vars == <<status, session, act, ctx, chan, bmail, mbox, reg, produced, bcasts,
          inbound, via, acq, otherOpen, recv, regUp, answer, lastIn>>

NoInbound == [a |-> "", kind |-> "", text |-> <<>>]
NoRecord == [sid |-> "", state |-> "", buffer |-> <<>>]
NoAnswer == [res |-> "none", rec |-> NoRecord]

\* No connection yet.  A session is unknown to the registry (New), or it was
\* served before by other transports (polling, streaming), which wrote its
\* Open frame and left the Record detached in one of the later states.
Init ==
    /\ status = [a \in Adapters |-> "idle"]
    /\ session = [a \in Adapters |-> ""]
    /\ act = [a \in Adapters |-> NewActor]
    /\ ctx = [a \in Adapters |-> NewCtx]
    /\ chan = [a \in Adapters |-> <<>>]
    /\ bmail = [a \in Adapters |-> <<>>]
    /\ mbox = <<>>
    /\ \E st \in [Sids -> SessionStates] :
          /\ reg = [s \in Sids |-> [record |-> [NewRecord(s) EXCEPT !.state = st[s]],
                                    sink |-> "none", ready |-> FALSE]]
          /\ otherOpen = [s \in Sids |-> IF st[s] = "New" THEN 0 ELSE 1]
    /\ produced = [s \in Sids |-> 0]
    /\ bcasts = 0
    /\ inbound = 0
    /\ via = [a \in Adapters |-> <<>>]
    /\ acq = [a \in Adapters |-> [res |-> "none", rec |-> NoRecord]]
    /\ recv = [a \in Adapters |-> <<>>]
    /\ regUp \in BOOLEAN
    /\ answer = [a \in Adapters |-> NoAnswer]
    /\ lastIn = NoInbound

Alive(a) == status[a] = "running"
\* the actor is no more: it stopped, or it was abandoned when its handler panicked
Gone(a) == status[a] \in {"stopped", "panicked"}

\* the environment may still produce an event
Budget ==
    LET RECURSIVE Sum(_)
        Sum(S) == IF S = {} THEN 0
                  ELSE LET x == CHOOSE y \in S : TRUE IN produced[x] + Sum(S \ {x})
    IN Sum(Sids) + bcasts + inbound < MaxEvents

\* the context runs the actor after a handler: once ctx.stop() was called no
\* further message is handled, Actor::stopping runs and the actor is gone
RunStopping(r) == IF r.ctx.stop THEN StoppingFn(r.act, r.ctx) ELSE r

\* the messages the step added to ctx.sent (ctx.state().do_send), as entries of
\* the registry's mailbox
NewSent(a, c) ==
    [i \in 1..(Len(c.sent) - Len(ctx[a].sent)) |->
        [from |-> a, msg |-> c.sent[Len(ctx[a].sent) + i]]]

\* the tags of the texts the step added to the wire
NewVia(a, c, first, rest) ==
    [i \in 1..(Len(c.wire) - Len(ctx[a].wire)) |-> IF i = 1 THEN first ELSE rest]

\* the adapter's part of a step: h is the (act, ctx) the handler returned, q the
\* registry's mailbox without what the step consumed, items the channel after it
Handled(a, h, q, items, first, rest) ==
    LET r == RunStopping(h)
    IN /\ act' = [act EXCEPT ![a] = r.act]
       /\ ctx' = [ctx EXCEPT ![a] = r.ctx]
       /\ mbox' = q \o NewSent(a, r.ctx)
       /\ via' = [via EXCEPT ![a] = @ \o NewVia(a, r.ctx, first, rest)]
       /\ status' = [status EXCEPT ![a] = IF r.ctx.stop THEN "stopped" ELSE "running"]
       /\ chan' = [chan EXCEPT ![a] = IF r.ctx.stop THEN <<>> ELSE items]
       /\ bmail' = [bmail EXCEPT ![a] = IF r.ctx.stop THEN <<>> ELSE @]

(***************************************************************************)
(* The registry (manager::SessionManager).                                 *)
(***************************************************************************)
\* Acquire: SessionBusy while a recipient is bound, else the Record of the sid
RegistryAcquire(sid) ==
    IF reg[sid].sink # "none"
    THEN [ok |-> FALSE, rec |-> NoRecord, err |-> "SessionBusy"]
    ELSE [ok |-> TRUE, rec |-> reg[sid].record, err |-> ""]

\* Websocket::init: a connection for sid arrives, the actor sends Acquire and waits
Connect(a, sid) ==
    /\ status[a] = "idle"
    /\ \A i \in 1..Len(AdapterOrder) :
          AdapterOrder[i] = a => \A j \in 1..(i - 1) : status[AdapterOrder[j]] # "idle"
    /\ status' = [status EXCEPT ![a] = "wait"]
    /\ session' = [session EXCEPT ![a] = sid]
    /\ mbox' = Append(mbox, [from |-> a, msg |-> Acquire(sid)])
    /\ lastIn' = NoInbound
    /\ UNCHANGED <<act, ctx, chan, bmail, reg, produced, bcasts, inbound, via, acq, otherOpen, recv, regUp, answer>>

\* Handler<Acquire>: the registry refuses while a recipient is bound, else it
\* binds the sid to the adapter and hands out the Record; the answer travels
\* back to the adapter, which waits (.wait(ctx)) until its closure runs
RegistryHandleAcquire(a) ==
    /\ regUp
    /\ mbox # <<>> /\ Head(mbox).from = a /\ Head(mbox).msg.m = "Acquire"
    /\ LET sid == Head(mbox).msg.sid
           res == RegistryAcquire(sid)
       IN IF res.ok
          THEN /\ reg' = [reg EXCEPT ![sid] = [record |-> None, sink |-> a,
                                               ready |-> FALSE]]
               /\ answer' = [answer EXCEPT ![a] = [res |-> "ok", rec |-> res.rec]]
          ELSE /\ reg' = reg
               /\ answer' = [answer EXCEPT ![a] = [res |-> "busy", rec |-> NoRecord]]
    /\ mbox' = Tail(mbox)
    /\ lastIn' = NoInbound
    /\ UNCHANGED <<status, session, act, ctx, chan, bmail, produced, bcasts, inbound,
                   via, acq, otherOpen, recv, regUp>>

\* the answer Ok((rec, rx)) has arrived: the map closure of init_transport runs
AcquireOk(a) ==
    /\ status[a] = "wait" /\ answer[a].res = "ok"
    /\ LET rec == answer[a].rec
           r == InitTransportOk(act[a], ctx[a], rec)
       IN /\ acq' = [acq EXCEPT ![a] = [res |-> "ok", rec |-> rec]]
          /\ Handled(a, r, mbox, chan[a],
                     IF rec.state = "New" THEN "open"
                     ELSE IF Terminal(rec.state) THEN "term" ELSE "flush",
                     "flush")
    /\ answer' = [answer EXCEPT ![a] = NoAnswer]
    /\ lastIn' = NoInbound
    /\ UNCHANGED <<session, reg, produced, bcasts, inbound, otherOpen, recv, regUp>>

\* the answer Err(SessionBusy) has arrived: the Err arm of the closure runs
AcquireBusy(a) ==
    /\ status[a] = "wait" /\ answer[a].res = "busy"
    /\ LET r == InitTransportErr(act[a], ctx[a], "SessionBusy")
       IN /\ acq' = [acq EXCEPT ![a] = [res |-> "busy", rec |-> NoRecord]]
          /\ Handled(a, r, mbox, chan[a], "err", "err")
    /\ answer' = [answer EXCEPT ![a] = NoAnswer]
    /\ lastIn' = NoInbound
    /\ UNCHANGED <<session, reg, produced, bcasts, inbound, otherOpen, recv, regUp>>

\* the registry actor is dead, the request future fails: map_err runs
AcquireUnavailable(a) ==
    /\ ~regUp
    /\ status[a] = "wait"
    /\ LET r == InitTransportMapErr(act[a], ctx[a])
       IN /\ acq' = [acq EXCEPT ![a] = [res |-> "unavailable", rec |-> NoRecord]]
          /\ Handled(a, r,
                     SelectSeq(mbox, LAMBDA e : ~(e.from = a /\ e.msg.m = "Acquire")),
                     chan[a], "err", "err")
    /\ lastIn' = NoInbound
    /\ UNCHANGED <<session, reg, produced, bcasts, inbound, otherOpen, recv, regUp, answer>>

\* Handler<Release>: unbind the recipient and store the Record back
RegistryRelease ==
    /\ regUp
    /\ mbox # <<>> /\ Head(mbox).msg.m = "Release"
    /\ LET rec == Head(mbox).msg.ses
       IN reg' = [reg EXCEPT ![rec.sid] = [record |-> rec, sink |-> "none", ready |-> FALSE]]
    /\ mbox' = Tail(mbox)
    /\ lastIn' = NoInbound
    /\ UNCHANGED <<status, session, act, ctx, chan, bmail, produced, bcasts, inbound,
                   via, acq, otherOpen, recv, regUp, answer>>

\* Handler<SessionMessage>: the payload goes to the Session Handler of the sid
RegistryDeliver ==
    /\ regUp
    /\ mbox # <<>> /\ Head(mbox).msg.m = "SessionMessage"
    /\ mbox' = Tail(mbox)
    /\ lastIn' = NoInbound
    /\ UNCHANGED <<status, session, act, ctx, chan, bmail, reg, produced, bcasts, inbound,
                   via, acq, otherOpen, recv, regUp, answer>>

\* the Session Handler sends a frame: to the bound channel, else into the buffer
RegistryFrame(sid, f) ==
    /\ regUp
    /\ Budget
    /\ f \in SessionFrames(produced[sid] + 1)
    /\ produced' = [produced EXCEPT ![sid] = @ + 1]
    /\ IF reg[sid].sink # "none"
       THEN /\ ~Gone(reg[sid].sink)
            /\ chan' = [chan EXCEPT ![reg[sid].sink] = Append(@, ItemFrame(f))]
            /\ reg' = reg
       ELSE /\ ~Terminal(reg[sid].record.state)
            /\ reg' = [reg EXCEPT ![sid].record = RecAdd(@, f)]
            /\ chan' = chan
    /\ lastIn' = NoInbound
    /\ UNCHANGED <<status, session, act, ctx, bmail, mbox, bcasts, inbound, via, acq, otherOpen, recv, regUp, answer>>

\* the registry signals the end of the backlog replay on the bound channel
RegistryReady(sid) ==
    /\ regUp
    /\ reg[sid].sink # "none" /\ ~reg[sid].ready
    /\ ~Gone(reg[sid].sink)
    /\ reg' = [reg EXCEPT ![sid].ready = TRUE]
    /\ chan' = [chan EXCEPT ![reg[sid].sink] = Append(@, ItemReady)]
    /\ lastIn' = NoInbound
    /\ UNCHANGED <<status, session, act, ctx, bmail, mbox, produced, bcasts, inbound,
                   via, acq, otherOpen, recv, regUp, answer>>

\* Handler<Broadcast> of the registry: to every bound recipient, and into the
\* buffer of every detached Running Record
RegistryBroadcast(f) ==
    /\ regUp
    /\ Budget
    /\ \E s \in Sids : \/ reg[s].sink # "none" /\ ~Gone(reg[s].sink)
                       \/ reg[s].sink = "none" /\ reg[s].record.state = "Running"
    /\ bcasts' = bcasts + 1
    /\ bmail' = [a \in Adapters |->
                   IF ~Gone(a) /\ \E s \in Sids : reg[s].sink = a
                   THEN Append(bmail[a], f) ELSE bmail[a]]
    /\ reg' = [s \in Sids |->
                 IF reg[s].sink = "none" /\ reg[s].record.state = "Running"
                 THEN [reg[s] EXCEPT !.record = RecAdd(@, f)]
                 ELSE reg[s]]
    /\ lastIn' = NoInbound
    /\ UNCHANGED <<status, session, act, ctx, chan, mbox, produced, inbound, via, acq, otherOpen, recv, regUp, answer>>

(***************************************************************************)
(* The actor's handlers.                                                   *)
(***************************************************************************)
\* Handler<ChannelItem>::handle: the next item of the frame channel
HandleChannelItem(a) ==
    /\ Alive(a) /\ ctx[a].stream /\ chan[a] # <<>>
    /\ Handled(a, HandleMessage(act[a], ctx[a], Head(chan[a])), mbox, Tail(chan[a]),
               IF Head(chan[a]).item = "Ready" THEN "flush" ELSE "live", "flush")
    /\ recv' = [recv EXCEPT ![a] = Append(@, Head(chan[a]))]
    /\ lastIn' = NoInbound
    /\ UNCHANGED <<session, reg, produced, bcasts, inbound, acq, otherOpen, regUp, answer>>

\* Handler<Broadcast>::handle
HandleBroadcast(a) ==
    /\ Alive(a) /\ bmail[a] # <<>>
    /\ LET h == HandleBroadcastFn(act[a], ctx[a], Head(bmail[a]))
           r == RunStopping(h)
       IN /\ act' = [act EXCEPT ![a] = r.act]
          /\ ctx' = [ctx EXCEPT ![a] = r.ctx]
          /\ mbox' = mbox \o NewSent(a, r.ctx)
          /\ via' = [via EXCEPT ![a] = @ \o NewVia(a, r.ctx, "bcast", "bcast")]
    /\ bmail' = [bmail EXCEPT ![a] = Tail(@)]
    /\ lastIn' = NoInbound
    /\ UNCHANGED <<status, session, chan, reg, produced, bcasts, inbound, acq,
                   otherOpen, recv, regUp, answer>>

\* StreamHandler::handle(ws::Message::Text)
\* When the handler panics, nothing of the handler has acted: the actor's
\* fields and its context are as they were.  What the framework does with the
\* actor while the panic unwinds is not part of this source, so both outcomes
\* are taken: the actor is abandoned where it stands (Actor::stopping does not
\* run, the Record stays in self.rec and nothing is released), or the context
\* stops the actor as it is torn down (Actor::stopping runs, as after
\* ctx.stop()).
WsText(a, text) ==
    /\ Alive(a) /\ Budget
    /\ inbound' = inbound + 1
    /\ LET h == HandleText(act[a], ctx[a], text)
       IN IF h.panic
          THEN \/ /\ status' = [status EXCEPT ![a] = "panicked"]
                  /\ chan' = [chan EXCEPT ![a] = <<>>]
                  /\ bmail' = [bmail EXCEPT ![a] = <<>>]
                  /\ UNCHANGED <<act, ctx, mbox, via>>
               \/ Handled(a, [act |-> act[a], ctx |-> CtxStop(ctx[a])], mbox, chan[a],
                          "none", "none")
          ELSE Handled(a, [act |-> h.act, ctx |-> h.ctx], mbox, chan[a], "none", "none")
    /\ lastIn' = [a |-> a, kind |-> "text", text |-> text]
    /\ UNCHANGED <<session, reg, produced, bcasts, acq, otherOpen, recv, regUp, answer>>

\* StreamHandler::handle(ws::Message::Binary)
WsBinary(a) ==
    /\ Alive(a) /\ Budget
    /\ inbound' = inbound + 1
    /\ Handled(a, HandleBinary(act[a], ctx[a]), mbox, chan[a], "none", "none")
    /\ lastIn' = [a |-> a, kind |-> "binary", text |-> <<>>]
    /\ UNCHANGED <<session, reg, produced, bcasts, acq, otherOpen, recv, regUp, answer>>

\* StreamHandler::handle(ws::Message::Close)
WsClose(a) ==
    /\ Alive(a) /\ Budget
    /\ inbound' = inbound + 1
    /\ Handled(a, HandleClose(act[a], ctx[a]), mbox, chan[a], "none", "none")
    /\ lastIn' = [a |-> a, kind |-> "close", text |-> <<>>]
    /\ UNCHANGED <<session, reg, produced, bcasts, acq, otherOpen, recv, regUp, answer>>

\* StreamHandler::error returns Running::Stop: the stream is finished and the
\* context stops
WsError(a) ==
    /\ Alive(a) /\ Budget
    /\ inbound' = inbound + 1
    /\ LET e == ErrorFn(act[a], ctx[a])
       IN Handled(a, [act |-> e.act, ctx |-> CtxStop(e.ctx)], mbox, chan[a], "none",
                  "none")
    /\ lastIn' = [a |-> a, kind |-> "error", text |-> <<>>]
    /\ UNCHANGED <<session, reg, produced, bcasts, acq, otherOpen, recv, regUp, answer>>

\* the peer goes away without a Close message: the inbound stream ends
\* (StreamHandler::finished is not overridden: ctx.stop())
WsFinished(a) ==
    /\ Alive(a) /\ Budget
    /\ inbound' = inbound + 1
    /\ Handled(a, [act |-> act[a], ctx |-> CtxStop(ctx[a])], mbox, chan[a], "none",
               "none")
    /\ lastIn' = [a |-> a, kind |-> "finished", text |-> <<>>]
    /\ UNCHANGED <<session, reg, produced, bcasts, acq, otherOpen, recv, regUp, answer>>

Next ==
    \/ \E a \in Adapters, sid \in Sids : Connect(a, sid)
    \/ \E a \in Adapters : RegistryHandleAcquire(a)
    \/ \E a \in Adapters : AcquireOk(a)
    \/ \E a \in Adapters : AcquireBusy(a)
    \/ \E a \in Adapters : AcquireUnavailable(a)
    \/ RegistryRelease
    \/ RegistryDeliver
    \/ \E sid \in Sids, f \in UNION {SessionFrames(k) : k \in 1..MaxEvents} :
          RegistryFrame(sid, f)
    \/ \E sid \in Sids : RegistryReady(sid)
    \/ \E f \in BroadcastFrames : RegistryBroadcast(f)
    \/ \E a \in Adapters : HandleChannelItem(a)
    \/ \E a \in Adapters : HandleBroadcast(a)
    \/ \E a \in Adapters : WsBinary(a)
    \/ \E a \in Adapters, text \in TextInputs : WsText(a, text)
    \/ \E a \in Adapters : WsClose(a)
    \/ \E a \in Adapters : WsError(a)
    \/ \E a \in Adapters : WsFinished(a)

Spec == Init /\ [][Next]_vars

(***************************************************************************)
(* What the properties read.                                               *)
(***************************************************************************)
Holds(a) == act[a].rec # None
Releases(a) == SelectSeq(ctx[a].sent, LAMBDA m : m.m = "Release")
Delivers(a) == SelectSeq(ctx[a].sent, LAMBDA m : m.m = "SessionMessage")
\* a successful Acquire that attached the adapter (the Record was New or Running)
Attached(a) == acq[a].res = "ok" /\ ~Terminal(acq[a].rec.state)
\* a successful Acquire of a Record in a terminal state
TerminalAcquire(a) == acq[a].res = "ok" /\ Terminal(acq[a].rec.state)

\* a client's reading of a text of the wire protocol
Decode(txt) ==
    CASE txt[1] = "h" -> Heartbeat
      [] txt[1] = "o" -> Open
      [] txt[1] = "a[" -> Message(txt[3])
      [] txt[1] = "a" -> MessageVec(txt[2])
      [] txt[1] = "c[" -> Close(txt[2])

\* the frames on the adapter's wire that were written by the paths in `paths`
WireFrames(a, paths) ==
    LET idx == SelectSeq([i \in 1..Len(ctx[a].wire) |-> i], LAMBDA i : via[a][i] \in paths)
    IN [k \in 1..Len(idx) |-> Decode(ctx[a].wire[idx[k]])]

IsPrefix(p, q) == Len(p) <= Len(q) /\ SubSeq(q, 1, Len(p)) = p

\* the frames among the channel items the adapter has handled
RecvFrames(a) ==
    LET fs == SelectSeq(recv[a], LAMBDA it : it.item = "Frame")
    IN [k \in 1..Len(fs) |-> fs[k].frame]
ReadyHandled(a) == \E i \in 1..Len(recv[a]) : recv[a][i].item = "Ready"

(***************************************************************************)
(* C1  Exclusivity.  No two adapters hold the Record of the same session   *)
(* at the same time; an adapter refused with SessionBusy never holds a     *)
(* Record; and an Acquire that is answered while another adapter holds     *)
(* the Record of its sid is refused with SessionBusy: the registry answers *)
(* SessionBusy, and the closure that runs on the answer ends the adapter   *)
(* as refused, without a Record.                                           *)
(***************************************************************************)
C1_Exclusive ==
    /\ \A a, b \in Adapters :
          (a # b /\ Holds(a) /\ Holds(b)) => act[a].rec.sid # act[b].rec.sid
    /\ \A a \in Adapters : acq[a].res # "ok" => ~Holds(a)

C1_Exclusivity ==
    /\ []C1_Exclusive
    /\ [][\A b \in Adapters :
            (/\ status[b] = "wait" /\ status'[b] # "wait"
             /\ \E a \in Adapters \ {b} : Holds(a) /\ act[a].rec.sid = session[b])
            => /\ acq'[b].res = "busy"
               /\ ~Holds(b)']_vars
    /\ [][\A b \in Adapters :
            (/\ answer[b].res = "none" /\ answer'[b].res # "none"
             /\ \E a \in Adapters \ {b} : Holds(a) /\ act[a].rec.sid = session[b])
            => /\ answer'[b].res = "busy"
               /\ reg' = reg]_vars

\* an adapter was refused with SessionBusy while the other one holds the Record
C1_Witness ==
    \E a, b \in Adapters :
        /\ acq[b].res = "busy" /\ status[b] = "stopped"
        /\ Holds(a) /\ act[a].rec.sid = session[b]

(***************************************************************************)
(* C2  Ordering.  The session frames an attached adapter has written (by   *)
(* a flush or directly from the channel) are, in order and each once, the  *)
(* backlog of the acquired Record followed by the frames it took from the  *)
(* channel: what is written is a prefix of that sequence, what is not yet  *)
(* written is the held Record's buffer, and once Ready was handled         *)
(* everything taken so far is written.                                     *)
(***************************************************************************)
C2_Ordering ==
    \A a \in Adapters :
        Attached(a) =>
            LET all == acq[a].rec.buffer \o RecvFrames(a)
                written == WireFrames(a, {"flush", "live"})
            IN /\ IsPrefix(written, all)
               /\ Holds(a) => written \o act[a].rec.buffer = all
               /\ (Holds(a) /\ ReadyHandled(a)) => written = all
               /\ ReadyHandled(a) => IsPrefix(acq[a].rec.buffer, written)

\* a backlog, a frame before Ready and a frame after Ready, all three written
C2_Witness ==
    \E a \in Adapters :
        /\ Attached(a) /\ Holds(a)
        /\ Len(acq[a].rec.buffer) = 1
        /\ Len(recv[a]) = 3
        /\ recv[a][1].item = "Frame" /\ recv[a][2].item = "Ready" /\ recv[a][3].item = "Frame"
        /\ Len(WireFrames(a, {"flush", "live"})) = 3

(***************************************************************************)
(* C3  Open-before-message.  Over the lifetime of a session exactly one    *)
(* Open frame is written (none before its first Acquire); the adapter that *)
(* acquires the Record in state New writes it as the first text of its     *)
(* wire, and every other adapter writes no Open at all.                    *)
(***************************************************************************)
OpenCount(a) == Len(SelectSeq(ctx[a].wire, LAMBDA txt : Decode(txt) = Open))

RECURSIVE SumOpen(_, _)
SumOpen(S, sid) ==
    IF S = {} THEN 0
    ELSE LET a == CHOOSE x \in S : TRUE
         IN (IF session[a] = sid THEN OpenCount(a) ELSE 0) + SumOpen(S \ {a}, sid)

C3_OpenOnce ==
    /\ \A sid \in Sids :
          LET started == otherOpen[sid] > 0
                           \/ \E a \in Adapters : session[a] = sid /\ acq[a].res = "ok"
          IN otherOpen[sid] + SumOpen(Adapters, sid) = IF started THEN 1 ELSE 0
    /\ \A a \in Adapters :
          IF acq[a].res = "ok" /\ acq[a].rec.state = "New"
          THEN /\ Len(ctx[a].wire) >= 1
               /\ Decode(ctx[a].wire[1]) = Open
               /\ OpenCount(a) = 1
          ELSE OpenCount(a) = 0

\* a New session with a backlog was opened by one adapter, which wrote Open and
\* then the backlog, and was acquired again later by the other
C3_Witness ==
    \E a, b \in Adapters :
        /\ acq[a].res = "ok" /\ acq[a].rec.state = "New" /\ acq[a].rec.buffer # <<>>
        /\ Len(ctx[a].wire) >= 2
        /\ acq[b].res = "ok" /\ acq[b].rec.state # "New" /\ session[b] = session[a]

(***************************************************************************)
(* C4  Terminal idempotence, as claimed.  An Acquire of a Closed or        *)
(* Interrupted session writes the Close frame of that state                *)
(* (Close(interrupted), Close(go-away)) and no Open, and the Record it     *)
(* releases has the state it was acquired in.                              *)
(***************************************************************************)
TerminalCloseFrame(state) ==
    IF state = "Interrupted" THEN Close("Interrupted") ELSE Close("GoAway")

C4_TerminalIdempotence ==
    \A a \in Adapters :
        TerminalAcquire(a) =>
            /\ Len(ctx[a].wire) = 1
            /\ Decode(ctx[a].wire[1]) = TerminalCloseFrame(acq[a].rec.state)
            /\ \A i \in 1..Len(Releases(a)) :
                  Releases(a)[i].ses.state = acq[a].rec.state

(***************************************************************************)
(* C5  No return from a terminal state.  Once the Record of a session is   *)
(* Closed or Interrupted no step makes it Running or New again; an adapter *)
(* that acquired a Record in a terminal state has written exactly one text,*)
(* a Close frame, has issued exactly one Release (in the step of the       *)
(* Acquire), holds no Record and is not subscribed to the frame stream.    *)
(***************************************************************************)
\* the Record of the session, wherever it is: in the registry's table, held by
\* an adapter, or in a Release on its way to the registry
RecordsOf(sid) ==
    (IF reg[sid].record # None THEN {reg[sid].record} ELSE {})
      \cup {act[a].rec : a \in {x \in Adapters : Holds(x) /\ act[x].rec.sid = sid}}
      \cup {mbox[i].msg.ses :
              i \in {j \in 1..Len(mbox) : mbox[j].msg.m = "Release" /\ mbox[j].msg.sid = sid}}

SomeTerminal(sid) == \E r \in RecordsOf(sid) : Terminal(r.state)
AllTerminal(sid) == \A r \in RecordsOf(sid) : Terminal(r.state)

C5_TerminalAdapter ==
    \A a \in Adapters :
        TerminalAcquire(a) =>
            /\ Len(ctx[a].wire) = 1
            /\ Decode(ctx[a].wire[1]).t = "Close"
            /\ Len(Releases(a)) = 1
            /\ Terminal(Releases(a)[1].ses.state)
            /\ ~Holds(a)
            /\ ~ctx[a].stream
            /\ recv[a] = <<>>

C5_NoReturn ==
    /\ []C5_TerminalAdapter
    /\ [][\A sid \in Sids : SomeTerminal(sid) => AllTerminal(sid)']_vars
    /\ [][\A a \in Adapters :
            (status[a] = "wait" /\ acq'[a].res = "ok" /\ Terminal(acq'[a].rec.state))
            => Len(Releases(a)') = 1]_vars

\* an adapter acquired a terminal Record, its Release is back in the registry
\* and the adapter, still running, has handled an inbound message since
C5_Witness ==
    \E a \in Adapters :
        /\ TerminalAcquire(a) /\ status[a] = "running"
        /\ reg[session[a]].sink = "none" /\ Terminal(reg[session[a]].record.state)
        /\ lastIn.a = a /\ lastIn.kind = "text"

(***************************************************************************)
(* C6  Release exactly once.  An adapter whose Acquire succeeded has       *)
(* issued no Release while it holds the Record and exactly one from the    *)
(* moment it gave the Record up, whatever ended it and whatever happens    *)
(* after; an adapter that is gone holds no Record; an adapter whose        *)
(* Acquire did not succeed issues none.                                    *)
(***************************************************************************)
C6_Once(a) ==
    /\ Len(Releases(a)) = IF acq[a].res = "ok" /\ ~Holds(a) THEN 1 ELSE 0
    /\ Gone(a) => ~Holds(a)
    /\ Holds(a) => acq[a].res = "ok"

C6_ReleaseOnce == \A a \in Adapters : C6_Once(a)

\* C6 with the adapters left aside that were abandoned when their Text handler
\* panicked: the only way C6_ReleaseOnce fails.  Whether an adapter can end
\* that way depends on what the framework does with a panicking actor; when
\* it runs Actor::stopping instead, the one Release is issued.
C6_ReleaseOnceUnlessAbandoned ==
    \A a \in Adapters : status[a] # "panicked" => C6_Once(a)

\* both adapters have stopped after a successful Acquire: one was attached, the
\* other had released at once (terminal Record) and met a release path later
C6_Witness ==
    \E a, b \in Adapters :
        /\ Attached(a) /\ status[a] = "stopped"
        /\ TerminalAcquire(b) /\ status[b] = "stopped"
        /\ lastIn.a = b /\ lastIn.kind = "close"

(***************************************************************************)
(* C7  Disconnect classification, as claimed.  When an attached adapter    *)
(* ends because its peer went away without a Close message (the actor      *)
(* stops while it still holds the Record) and the application had not      *)
(* closed the session, the Release records the session as Interrupted.     *)
(***************************************************************************)
ClosedByApplication(a) ==
    \E i \in 1..Len(ctx[a].wire) : Decode(ctx[a].wire[i]).t = "Close"

C7_DisconnectClassification ==
    [][\A a \in Adapters :
         (/\ Holds(a) /\ ~ClosedByApplication(a)
          /\ lastIn'.a = a /\ lastIn'.kind \in {"finished", "error"})
         => /\ Len(Releases(a)') = 1
            /\ Releases(a)'[1].ses.state = "Interrupted"]_vars

(***************************************************************************)
(* C8  Malformed input isolation.  When an adapter that holds a Record     *)
(* handles a text that fails JSON decoding, the step issues no Deliver,    *)
(* sends exactly one close with the invalid-payload code, issues exactly   *)
(* one Release, whose Record is Interrupted, gives the Record up and stops *)
(* the adapter; a stopped adapter does nothing any more.                   *)
(***************************************************************************)
\* the text is neither ignored nor decoded
FailsDecoding(text) ==
    /\ text # <<>>
    /\ ~(text[1] = "[" /\ ByteLen(text) <= 2)
    /\ ~(IF text[1] = "[" THEN FromSliceString(SubSeq(text, 2, Len(text) - 1)).ok
                          ELSE FromSliceString(text).ok)

C8_MalformedIsolation ==
    /\ [][\A a \in Adapters :
            (/\ lastIn'.a = a /\ lastIn'.kind = "text" /\ FailsDecoding(lastIn'.text)
             /\ Holds(a))
            => /\ Delivers(a)' = Delivers(a)
               /\ ctx'[a].closed = Append(ctx[a].closed, "Invalid")
               /\ Len(ctx'[a].closed) = 1
               /\ Len(Releases(a)') = 1 /\ Releases(a) = <<>>
               /\ Releases(a)'[1].ses.state = "Interrupted"
               /\ Releases(a)'[1].ses.sid = act[a].rec.sid
               /\ ctx'[a].wire = ctx[a].wire
               /\ ~Holds(a)'
               /\ status'[a] = "stopped"]_vars
    /\ [][\A a \in Adapters :
            status[a] = "stopped" => (ctx'[a] = ctx[a] /\ act'[a] = act[a]
                                      /\ status'[a] = "stopped")]_vars

\* an attached adapter delivered a payload and was then stopped by a text in the
\* bracketed form that fails decoding
C8_Witness ==
    \E a \in Adapters :
        /\ Attached(a) /\ status[a] = "stopped"
        /\ lastIn.a = a /\ lastIn.kind = "text" /\ lastIn.text # <<>>
        /\ lastIn.text[1] = "["
        /\ Len(Delivers(a)) = 1
        /\ ctx[a].closed = <<"Invalid">>

(***************************************************************************)
(* C9  SessionBusy isolation.  An adapter refused with SessionBusy has     *)
(* written exactly one text, a close frame, and has stopped; it has sent   *)
(* no Release and no Deliver, holds no Record, is not subscribed; and the  *)
(* two steps of the refusal (the registry answers SessionBusy, the closure *)
(* of the refused adapter runs on the answer) change nothing of any other  *)
(* adapter, of the registry's table or of the frame channels, and add      *)
(* nothing to the registry's mailbox.                                      *)
(***************************************************************************)
C9_BusyAdapter ==
    \A b \in Adapters :
        acq[b].res = "busy" =>
            /\ Len(ctx[b].wire) = 1
            /\ Decode(ctx[b].wire[1]).t = "Close"
            /\ ctx[b].sent = <<>>
            /\ ctx[b].closed = <<>>
            /\ ~Holds(b)
            /\ ~ctx[b].stream
            /\ status[b] = "stopped"

C9_BusyIsolation ==
    /\ []C9_BusyAdapter
    /\ [][\A b \in Adapters :
            (answer[b].res # "busy" /\ answer'[b].res = "busy")
            => /\ \A a \in Adapters :
                     /\ act'[a] = act[a] /\ ctx'[a] = ctx[a]
                     /\ chan'[a] = chan[a] /\ status'[a] = status[a]
               /\ reg' = reg
               /\ mbox' = Tail(mbox)]_vars
    /\ [][\A b \in Adapters :
            (status[b] = "wait" /\ acq'[b].res = "busy")
            => /\ \A a \in Adapters \ {b} :
                     /\ act'[a] = act[a] /\ ctx'[a] = ctx[a]
                     /\ chan'[a] = chan[a] /\ status'[a] = status[a]
               /\ reg' = reg
               /\ mbox' = mbox]_vars

\* a refused adapter, and the holder of the session with frames on its wire
C9_Witness ==
    \E a, b \in Adapters :
        /\ acq[b].res = "busy"
        /\ Holds(a) /\ act[a].rec.sid = session[b]
        /\ Len(ctx[a].wire) >= 2 /\ ReadyHandled(a)

(***************************************************************************)
(* C10  RegistryUnavailable, as claimed.  An adapter whose Acquire request *)
(* failed has sent Close(InternalError) and has stopped.                   *)
(***************************************************************************)
C10_Unavailable ==
    \A a \in Adapters :
        acq[a].res = "unavailable" =>
            /\ Len(ctx[a].wire) >= 1
            /\ Decode(ctx[a].wire[1]) = Close("InternalError")
            /\ status[a] = "stopped"


(***************************************************************************)
(* C11  Pending gating.  While an adapter holds a Record and has not yet   *)
(* handled Ready, handling a frame of the channel writes nothing and       *)
(* appends the frame to the tail of the held Record's buffer; handling     *)
(* Ready writes the whole buffer, oldest first, and empties it; after      *)
(* Ready, handling a frame writes exactly that frame and leaves the buffer *)
(* alone.  No text is written directly from the channel before Ready.      *)
(***************************************************************************)
\* the frames of the texts the step adds to the wire of a
NewFrames(a) ==
    [k \in 1..(Len(ctx[a].wire') - Len(ctx[a].wire)) |->
        Decode(ctx[a].wire'[Len(ctx[a].wire) + k])]

C11_Step(a) ==
    (recv[a]' # recv[a] /\ Holds(a)) =>
        LET it == Head(chan[a])
        IN CASE it.item = "Frame" /\ ~ReadyHandled(a) ->
                  /\ ctx[a].wire' = ctx[a].wire
                  /\ act[a].rec' = RecAdd(act[a].rec, it.frame)
             [] it.item = "Ready" ->
                  /\ NewFrames(a) = act[a].rec.buffer
                  /\ Holds(a)' => act[a].rec.buffer' = <<>>
             [] it.item = "Frame" /\ ReadyHandled(a) ->
                  /\ NewFrames(a) = <<it.frame>>
                  /\ Holds(a)' /\ act[a].rec.buffer' = act[a].rec.buffer

C11_PendingGating ==
    /\ [](\A a \in Adapters :
            ~ReadyHandled(a) => \A i \in 1..Len(via[a]) : via[a][i] # "live")
    /\ [][\A a \in Adapters : C11_Step(a)]_vars

\* two frames were taken while pending and wait in the buffer, then Ready was
\* handled and wrote them
C11_Witness ==
    \E a \in Adapters :
        /\ Attached(a) /\ Holds(a)
        /\ Len(recv[a]) = 3
        /\ recv[a][1].item = "Frame" /\ recv[a][2].item = "Frame"
        /\ recv[a][3].item = "Ready"
        /\ WireFrames(a, {"flush"}) = acq[a].rec.buffer \o RecvFrames(a)
        /\ act[a].rec.buffer = <<>>

(***************************************************************************)
(* C12  Broadcast FIFO, as claimed.  An adapter that holds a Record whose  *)
(* buffer still has frames it accepted earlier does not write a Broadcast  *)
(* frame to the wire: the Broadcast is never written ahead of the frames   *)
(* waiting in the buffer.                                                  *)
(***************************************************************************)
\* the step wrote a Broadcast frame to the wire of a
WritesBroadcast(a) ==
    /\ Len(via[a]') > Len(via[a])
    /\ via[a]'[Len(via[a]')] = "bcast"

C12_BroadcastFifo ==
    [][\A a \in Adapters :
         (Holds(a) /\ act[a].rec.buffer # <<>>) => ~WritesBroadcast(a)]_vars

(***************************************************************************)
(* C13  Detach and reattach while Running, as claimed.  A Running session  *)
(* can end an attachment and stay Running: whenever an adapter holds a     *)
(* Record that is Running, a step is possible in which that adapter issues *)
(* a Release whose Record is still Running (the row "Running | Release,    *)
(* connection still open | Running" of the lifecycle table).               *)
(***************************************************************************)
\* a step in which a issues a Release that carries a Running Record
DetachRunning(a) ==
    /\ Next
    /\ Len(Releases(a)') = Len(Releases(a)) + 1
    /\ Releases(a)'[Len(Releases(a)')].ses.state = "Running"

C13_DetachWhileRunning ==
    \A a \in Adapters :
        (Holds(a) /\ act[a].rec.state = "Running") => ENABLED DetachRunning(a)

\* what the adapter does instead: no Release it issues carries a Record that is
\* New or Running, so a Running Record reaches an Acquire only from elsewhere
C13_EveryReleaseTerminal ==
    \A a \in Adapters :
        \A i \in 1..Len(Releases(a)) : Terminal(Releases(a)[i].ses.state)

(***************************************************************************)
(* C14  Binary silence.  The step in which an adapter handles a binary     *)
(* inbound message issues no Deliver and no Release (nothing is sent to    *)
(* the registry), writes nothing to the wire and sends no close, leaves    *)
(* the held Record (state and buffer) and the flags as they were, and      *)
(* leaves the adapter running with its channel and mailbox intact.         *)
(***************************************************************************)
C14_BinarySilence ==
    [][\A a \in Adapters :
         (lastIn'.a = a /\ lastIn'.kind = "binary") =>
            /\ ctx[a]' = ctx[a]
            /\ act[a]' = act[a]
            /\ mbox' = mbox
            /\ status[a]' = "running"
            /\ chan[a]' = chan[a] /\ bmail[a]' = bmail[a]]_vars

\* a binary message was handled by a pending adapter that holds a Record with a
\* frame waiting in its buffer
C14_Witness ==
    \E a \in Adapters :
        /\ lastIn.a = a /\ lastIn.kind = "binary"
        /\ Holds(a) /\ act[a].rec.buffer # <<>>
        /\ status[a] = "running"

(***************************************************************************)
(* C15  Close marks the session closed.  A step in which an adapter writes *)
(* a Close frame through send (from the channel, in a flush, for a         *)
(* Broadcast, or for the Acquire of a terminal Record) leaves the Record   *)
(* Closed: the one it still holds, or the one it released in that step.    *)
(* From then on the Record it holds stays Closed, every Release it issues  *)
(* carries a terminal Record, and an Acquire of that sid that is answered  *)
(* later receives a terminal Record and writes a Close frame and no Open.  *)
(***************************************************************************)
SendPaths == {"flush", "live", "bcast", "term"}

\* a has written a Close frame through send
ClosedBySend(a) ==
    \E i \in 1..Len(ctx[a].wire) :
        via[a][i] \in SendPaths /\ Decode(ctx[a].wire[i]).t = "Close"

C15_Step(a) ==
    (ClosedBySend(a)' /\ ctx[a].wire' # ctx[a].wire
        /\ Decode(ctx[a].wire'[Len(ctx[a].wire')]).t = "Close") =>
       IF Holds(a)'
       THEN act[a].rec.state' = "Closed"
       ELSE /\ Len(Releases(a)') = Len(Releases(a)) + 1
            /\ Releases(a)'[Len(Releases(a)')].ses.state = "Closed"

C15_NextAcquire(b) ==
    (acq[b].res = "none" /\ acq[b]'.res = "ok"
        /\ \E a \in Adapters : a # b /\ session[a] = session[b] /\ ClosedBySend(a)) =>
       /\ Terminal(acq[b]'.rec.state)
       /\ OpenCount(b)' = 0
       /\ Len(ctx[b].wire') = 1 /\ Decode(ctx[b].wire'[1]).t = "Close"

C15_CloseMarksClosed ==
    /\ [](\A a \in Adapters :
            ClosedBySend(a) =>
               /\ Holds(a) => act[a].rec.state = "Closed"
               /\ \A i \in 1..Len(Releases(a)) : Terminal(Releases(a)[i].ses.state))
    /\ [][\A a \in Adapters : C15_Step(a) /\ C15_NextAcquire(a)]_vars

\* an adapter attached to a New session wrote a Close frame taken from the
\* channel, ended with a protocol error, and the next adapter of the sid was
\* given the terminal Record and wrote a Close frame
C15_Witness ==
    \E a, b \in Adapters :
        /\ a # b /\ session[a] = session[b]
        /\ acq[a].res = "ok" /\ acq[a].rec.state = "New"
        /\ \E i \in 1..Len(via[a]) :
               via[a][i] = "live" /\ Decode(ctx[a].wire[i]).t = "Close"
        /\ Len(Releases(a)) = 1 /\ Releases(a)[1].ses.state = "Interrupted"
        /\ TerminalAcquire(b) /\ Len(ctx[b].wire) = 1

(***************************************************************************)
(* C16  PeerClose.  The step in which an adapter that holds a Record       *)
(* handles a Close message of the peer issues exactly one Release, which   *)
(* carries the held Record marked Closed (same sid and buffer, whatever    *)
(* its state was), gives the Record up and stops the adapter; no further   *)
(* Release follows.                                                        *)
(***************************************************************************)
C16_PeerClose ==
    /\ [][\A a \in Adapters :
            (Holds(a) /\ lastIn'.a = a /\ lastIn'.kind = "close") =>
               /\ Releases(a)' = <<Release(RecClose(act[a].rec))>>
               /\ Releases(a)'[1].ses.state = "Closed"
               /\ ctx[a].wire' = ctx[a].wire
               /\ ~Holds(a)' /\ status[a]' = "stopped"]_vars
    /\ [][\A a \in Adapters :
            status[a] = "stopped" => Releases(a)' = Releases(a)]_vars

\* the peer closed an attachment whose Record was Running and had a frame
\* waiting in its buffer; the Release carries it Closed
C16_Witness ==
    \E a \in Adapters :
        /\ lastIn.a = a /\ lastIn.kind = "close"
        /\ Attached(a) /\ status[a] = "stopped"
        /\ Len(Releases(a)) = 1
        /\ Releases(a)[1].ses.state = "Closed"
        /\ Releases(a)[1].ses.buffer # <<>>
        /\ ~ClosedBySend(a)

(***************************************************************************)
(* C17  ProtocolError.  The step in which an adapter that holds a Record   *)
(* gets a protocol error of the transport issues exactly one Release,      *)
(* which carries the held Record marked Interrupted, gives the Record up   *)
(* and stops the adapter; the stopping hook that runs in the same step     *)
(* adds no second Release and does not turn the Record Closed, and no      *)
(* Release follows later.                                                  *)
(***************************************************************************)
C17_ProtocolError ==
    /\ [][\A a \in Adapters :
            (Holds(a) /\ lastIn'.a = a /\ lastIn'.kind = "error") =>
               /\ Releases(a)' = <<Release(RecInterrupted(act[a].rec))>>
               /\ Releases(a)'[1].ses.state = "Interrupted"
               /\ ~Holds(a)' /\ status[a]' = "stopped"]_vars
    /\ [][\A a \in Adapters :
            (status[a] = "stopped" /\ lastIn.a = a /\ lastIn.kind = "error") =>
               Releases(a)' = Releases(a)]_vars

\* a protocol error ended an attachment whose Record was Running; the registry
\* has stored the Record back as Interrupted
C17_Witness ==
    \E a \in Adapters :
        /\ Attached(a) /\ status[a] = "stopped"
        /\ Len(Releases(a)) = 1
        /\ Releases(a)[1].ses.state = "Interrupted"
        /\ ctx[a].closed = <<>>
        /\ reg[session[a]].sink = "none"
        /\ reg[session[a]].record.state = "Interrupted"

(***************************************************************************)
(* C18  Deliver per payload, as claimed.  When an adapter that holds a     *)
(* Record handles a text that is a JSON array of n >= 1 strings, the step  *)
(* issues exactly n Deliver messages, one per payload in array order, each *)
(* addressed to the sid of the held Record, and treats the text as well    *)
(* formed: no close, no Release, the Record stays held and the adapter     *)
(* keeps running.                                                          *)
(***************************************************************************)
\* the first index from i on that holds no whitespace
RECURSIVE SkipWs(_, _)
SkipWs(s, i) == IF i <= Len(s) /\ s[i] \in Whitespace THEN SkipWs(s, i + 1) ELSE i

\* a client's reading of s from index i on as a comma-separated list of JSON
\* strings that ends with the closing bracket
RECURSIVE JsonStrings(_, _)
JsonStrings(s, i) ==
    LET i0 == SkipWs(s, i)
        bad == [ok |-> FALSE, vals |-> <<>>]
    IN IF i0 > Len(s) \/ s[i0] # Q THEN bad
       ELSE LET r == ParseStr(s, i0 + 1, <<>>)
                n == IF r.ok THEN SkipWs(s, r.next) ELSE 0
            IN IF ~r.ok \/ n > Len(s) THEN bad
               ELSE IF s[n] = "]"
               THEN IF SkipWs(s, n + 1) > Len(s)
                    THEN [ok |-> TRUE, vals |-> <<r.val>>] ELSE bad
               ELSE IF s[n] # "," THEN bad
               ELSE LET t == JsonStrings(s, n + 1)
                    IN IF t.ok THEN [ok |-> TRUE, vals |-> <<r.val>> \o t.vals] ELSE bad

\* the payloads of a text that is a JSON array of one or more strings
ArrayPayloads(text) ==
    LET i0 == SkipWs(text, 1)
    IN IF i0 <= Len(text) /\ text[i0] = "["
       THEN JsonStrings(text, i0 + 1)
       ELSE [ok |-> FALSE, vals |-> <<>>]

C18_DeliverPerPayload ==
    [][\A a \in Adapters :
         (Holds(a) /\ lastIn'.a = a /\ lastIn'.kind = "text"
             /\ ArrayPayloads(lastIn'.text).ok) =>
            LET ps == ArrayPayloads(lastIn'.text).vals
            IN /\ Delivers(a)' = Delivers(a) \o
                     [i \in 1..Len(ps) |-> SessionMessage(act[a].rec.sid, ps[i])]
               /\ Releases(a)' = Releases(a)
               /\ ctx[a].closed' = ctx[a].closed
               /\ Holds(a)' /\ status[a]' = "running"]_vars

\* the part that holds: an array of one string gives exactly one Deliver
C18_SinglePayload ==
    [][\A a \in Adapters :
         (Holds(a) /\ lastIn'.a = a /\ lastIn'.kind = "text"
             /\ ArrayPayloads(lastIn'.text).ok
             /\ Len(ArrayPayloads(lastIn'.text).vals) = 1) =>
            /\ Delivers(a)' = Append(Delivers(a),
                  SessionMessage(act[a].rec.sid, ArrayPayloads(lastIn'.text).vals[1]))
            /\ Releases(a)' = Releases(a)
            /\ Holds(a)' /\ status[a]' = "running"]_vars

(***************************************************************************)
(* C19  Frame conservation.  When an attached adapter is gone, the         *)
(* session frames it wrote followed by the buffer of the Record it         *)
(* released are exactly the backlog it was given followed by the frames it *)
(* took from the channel, in order and each once: every accepted frame is  *)
(* either on the wire or in the released buffer.  If it stopped before     *)
(* Ready was handled, the released buffer holds all the frames it took,    *)
(* in arrival order, and only the backlog was written.                     *)
(***************************************************************************)
C19_Conserved(a) ==
    LET written == WireFrames(a, {"flush", "live"})
        released == IF Releases(a) = <<>> THEN <<>>
                    ELSE Releases(a)[1].ses.buffer
    IN /\ Len(Releases(a)) <= 1
       /\ written \o released = acq[a].rec.buffer \o RecvFrames(a)
       /\ ~ReadyHandled(a) =>
             /\ released = RecvFrames(a)
             /\ written = acq[a].rec.buffer

C19_FrameConservation ==
    \A a \in Adapters : (Attached(a) /\ Gone(a)) => C19_Conserved(a)

\* C19 for the adapters that stopped (Actor::stopping ran), whatever stopped
\* them: C19_FrameConservation fails only for an adapter abandoned when its
\* Text handler panicked, whose buffered frames stay in a Record that is never
\* released.  Whether an adapter can end that way depends on what the
\* framework does with a panicking actor.
C19_ConservedWhenStopped ==
    \A a \in Adapters : (Attached(a) /\ status[a] = "stopped") => C19_Conserved(a)

\* an adapter that was given a backlog took a frame while pending and ended
\* before Ready: the frame is in the buffer of the released Record
C19_Witness ==
    \E a \in Adapters :
        /\ Attached(a) /\ status[a] = "stopped"
        /\ ~ReadyHandled(a)
        /\ Len(acq[a].rec.buffer) = 1
        /\ Len(RecvFrames(a)) = 1
        /\ Len(Releases(a)) = 1
        /\ Releases(a)[1].ses.buffer = RecvFrames(a)

(***************************************************************************)
(* C20  Buffer drained once Ready.  Whenever an adapter holds a Record and *)
(* its READY flag is set, the Record's buffer is empty.  READY is set      *)
(* exactly by the step that handles Ready and is never cleared; the buffer *)
(* of a held Record grows only by the frame taken from the channel in that *)
(* step and otherwise only loses frames from its head; and every Release   *)
(* of an adapter that reached READY carries an empty buffer.               *)
(***************************************************************************)
Ready(a) == "READY" \in act[a].flags

C20_Step(a) ==
    /\ Ready(a) => Ready(a)'
    /\ (~Ready(a) /\ Ready(a)') =>
          /\ chan[a] # <<>> /\ Head(chan[a]) = ItemReady
          /\ recv[a]' = Append(recv[a], ItemReady)
    /\ (recv[a]' = Append(recv[a], ItemReady)) => Ready(a)'
    /\ (Holds(a) /\ Holds(a)') =>
          LET old == act[a].rec.buffer
              new == act[a].rec.buffer'
          IN \/ \E k \in 0..Len(old) : new = SubSeq(old, k + 1, Len(old))
             \/ /\ recv[a]' # recv[a]
                /\ new = Append(old, Head(chan[a]).frame)

C20_BufferDrained ==
    /\ [](\A a \in Adapters :
            /\ (Holds(a) /\ Ready(a)) => act[a].rec.buffer = <<>>
            /\ Ready(a) <=> ReadyHandled(a)
            /\ Ready(a) => \A i \in 1..Len(Releases(a)) :
                               Releases(a)[i].ses.buffer = <<>>)
    /\ [][\A a \in Adapters : C20_Step(a)]_vars

\* an adapter flushed a buffered frame at Ready, wrote a later frame directly
\* and has released its Record, with an empty buffer
C20_Witness ==
    \E a \in Adapters :
        /\ Attached(a) /\ Ready(a) /\ status[a] = "stopped"
        /\ Len(WireFrames(a, {"flush"})) = 1
        /\ Len(WireFrames(a, {"live"})) = 1
        /\ Len(Releases(a)) = 1 /\ Releases(a)[1].ses.buffer = <<>>

====
